---------------------------- MODULE Spec2Model ----------------------------
(***************************************************************************)
(* Model of the session and buffering layer of ditto-talkinghead:          *)
(*   src/rtmp_streaming_service.py  (RTMP egress, microphone capture)       *)
(*   src/streaming_service.py       (WebSocket transport)                   *)
(*                                                                         *)
(* The two files are two separate programs.  The variable `service` says   *)
(* which of them a behaviour is a run of; the actions of the other one are *)
(* disabled.                                                               *)
(*                                                                         *)
(* Python objects are modelled as a heap: every create_stream /            *)
(* create_session call allocates one object index o that stands for the    *)
(* stream dict together with the engine, the writer and the audio capture  *)
(* it owns (they are created together and never shared).  The registry     *)
(* maps an id to an object index, 0 meaning "no entry".                    *)
(***************************************************************************)
EXTENDS Naturals, Sequences, FiniteSets

\* ---------------------------------------------------------------- bounds
\* Chunks a capture device delivers in the channel specification.
MaxCaptured == 103
\* Frames an engine emits in the channel specification.
MaxGenerated == 33

\* ------------------------------------------------------ program constants
\* queue.Queue(maxsize=100) of AudioCapture.
AudioMaxSize == 100
\* asyncio.Queue(maxsize=30) of StreamingVideoWriter.
FrameMaxSize == 30

\* ---------------------------------------------------------------- bounds
\* create_stream / create_session calls in one behaviour (objects allocated).
MaxCreates == 2
\* Frames the engine hands to the writer during one run_chunk or close call.
MaxPerCall == 2

\* Chunks a capture device delivers in the lifecycle specifications.
MaxChunks == 2
\* Frames an engine emits in the lifecycle specifications.
MaxFrames == 2
\* Chunks delivered plus frames emitted, over all objects, in the
\* specification that creates sessions again.
MaxEvents == 2

\* Object indices.
Objs == 1..MaxCreates
\* The object of the channel specification: one running session.
ChannelObjs == {1}
\* The object of the single-session specifications.
SessionObjs == {1}
\* Stream ids of the RTMP program.
StreamIds == {"s1", "s2"}
\* Worker threads one stream can have (start_stream_processing calls on it).
ThreadSlots == {1, 2}
\* Session ids of the WebSocket program.
SessionIds == {"w1", "w2"}

\* Messages of the frame queue.
FrameMsg(n) == [type |-> "frame", data |-> n]
EndMsg == [type |-> "end"]

VARIABLES
    service,        \* "rtmp" | "ws": which program runs
    \* ---- AudioCapture (rtmp), per object
    cap_is_active,  \* AudioCapture.is_active
    audio_queue,    \* AudioCapture.audio_queue (chunks are numbered 1, 2, ...)
    captured,       \* chunks the device has delivered to _audio_callback
    cb_pc,          \* position of the driver thread inside _audio_callback
    cb_data,        \* audio_data of the callback in progress (0: none)
    \* ---- history of the audio channel
    last_popped,    \* last chunk get_audio_chunk returned (0: none yet)
    last_evicted,   \* last chunk _audio_callback removed with get_nowait
    last_rejected,  \* last new chunk _audio_callback gave up on (0: none)
    \* ---- AudioCapture device
    cap_stream,     \* AudioCapture.stream: "None" | "open"
    \* ---- TalkingHeadRTMPService (rtmp)
    active_streams, \* registry: stream id -> object (0: no entry)
    rtmp_alloc,     \* objects allocated by create_stream so far
    stream_active,  \* stream["active"], per object
    sdk,            \* engine of the stream: "none" | "setup" | "closed"
    audio_thread,   \* stream["audio_thread"]: thread slot (0: key absent)
    thread_pc,      \* per object and slot, position of audio_processor:
                    \* "none" | "loop" | "get" | "got" | "run_chunk" |
                    \* "writing" | "done" | "raised"
    thread_chunk,   \* per object and slot, audio_chunk of the worker (0: None)
    last_fed,       \* history: last chunk passed to sdk.run_chunk (0: none)
    \* ---- RTMPStreamWriter, per object
    rtmp_is_active, \* RTMPStreamWriter.is_active
    rtmp_process,   \* RTMPStreamWriter.process: "None" | "Popen"
    stdin_state,    \* process.stdin: "open" | "pending" (open, holding
                    \* bytes a failed flush left behind) | "closed"
    ffmpeg,         \* encoder subprocess: "none" | "running" | "gone"
                    \* (died, pipe broken) | "exited" | "killed"
    pipe_frames,    \* frames written to the encoder pipe
    write_failed,   \* history: a write raised BrokenPipeError/OSError
    \* ---- the caller of the service (the event loop: one call at a time)
    call,           \* the call in progress: [op, id, obj, pc, via]
    last_call,      \* the last call that completed: [op, id, result]
    call_tick,      \* flips whenever a call starts
    \* ---- TalkingHeadStreamingService (ws)
    active_sessions,   \* registry: session id -> object (0: no entry)
    ws_alloc,          \* objects allocated by create_session so far
    session_active,    \* session["active"], per object
    ws_sdk,            \* engine of the session: "none" | "setup" | "closed"
    writer_is_active,  \* StreamingVideoWriter.is_active
    frame_queue,       \* StreamingVideoWriter.frame_queue
    generated,         \* frames the engine has handed to the writer
    \* ---- stream_frames task t (created with object t by the endpoint)
    sf_pc,             \* "none" | "scheduled" | "waiting" | "sending" | "done"
    sf_id,             \* session_id argument of the task ("" before creation)
    sf_obj,            \* `session` looked up by the task (0 before it starts)
    last_sent          \* data of the last frame message sent (0: none)

audio_vars == <<cap_is_active, audio_queue, captured, cb_pc, cb_data,
                last_popped, last_evicted, last_rejected>>

ws_vars == <<active_sessions, ws_alloc, session_active, ws_sdk,
             writer_is_active, frame_queue, generated>>

sf_vars == <<sf_pc, sf_id, sf_obj, last_sent>>

rtmp_vars == <<active_streams, rtmp_alloc, stream_active, sdk>>

\* The local variable of the workers and the history of the engine's input.
fed_vars == <<thread_chunk, last_fed>>

thread_vars == <<audio_thread, thread_pc, fed_vars>>

writer_vars == <<rtmp_is_active, rtmp_process, stdin_state, ffmpeg,
                 pipe_frames, write_failed>>

call_vars == <<call, last_call, call_tick>>

\* Everything the channel actions leave alone.
life_vars == <<cap_stream, rtmp_vars, thread_vars, writer_vars, call_vars>>

vars == <<service, audio_vars, ws_vars, sf_vars, life_vars>>

\* No call in progress; no call completed yet.
NoCall == [op |-> "idle", id |-> "", obj |-> 0, pc |-> "", via |-> ""]
NoLastCall == [op |-> "none", id |-> "", result |-> ""]

\* ------------------------------------------------------------ calls
\* A call completes with `result`.
CallDone(op, id, result) ==
    /\ call' = NoCall
    /\ last_call' = [op |-> op, id |-> id, result |-> result]

\* Calls that start on a pool of threads: a call starts while another one is
\* in progress.
CallStartThreaded(svc) ==
    /\ service = svc
    /\ call_tick' = ~call_tick

\* A call of program `svc` starts: the event loop runs one call at a time.
CallStart(svc) ==
    /\ service = svc
    /\ call = NoCall
    /\ call_tick' = ~call_tick

\* ------------------------------------------------------- queue.Queue
\* queue.Queue.full(): maxsize <= 0 is an unbounded queue.
QueueFull(q, maxsize) == maxsize > 0 /\ Len(q) >= maxsize

\* ----------------------------------------------- AudioCapture (rtmp)
\* _audio_callback, lines 117-120: the driver delivers the next chunk on its
\* own thread; the callback tests is_active and ignores the chunk unless it
\* is set.  The test and the put_nowait that follows are separate steps of
\* that thread.
AudioCallbackEnter(o, limit) ==
    /\ service = "rtmp"
    /\ cb_pc[o] = "idle"
    /\ cap_stream[o] = "open"
    /\ captured[o] < limit
    /\ captured' = [captured EXCEPT ![o] = @ + 1]
    /\ IF ~cap_is_active[o]
       THEN UNCHANGED <<cb_pc, cb_data>>
       ELSE /\ cb_pc' = [cb_pc EXCEPT ![o] = "put"]
            /\ cb_data' = [cb_data EXCEPT ![o] = captured[o] + 1]
    /\ UNCHANGED <<service, cap_is_active, audio_queue, last_popped,
                   last_evicted, last_rejected, ws_vars, sf_vars, life_vars>>

\* _audio_callback, lines 121-123: put_nowait either appends the chunk or
\* raises queue.Full, which the callback catches.
AudioCallbackPut(o) ==
    /\ service = "rtmp"
    /\ cb_pc[o] = "put"
    /\ IF QueueFull(audio_queue[o], AudioMaxSize)
       THEN /\ cb_pc' = [cb_pc EXCEPT ![o] = "full"]
            /\ UNCHANGED <<audio_queue, cb_data>>
       ELSE /\ audio_queue' = [audio_queue EXCEPT ![o] = Append(@, cb_data[o])]
            /\ cb_pc' = [cb_pc EXCEPT ![o] = "idle"]
            /\ cb_data' = [cb_data EXCEPT ![o] = 0]
    /\ UNCHANGED <<service, cap_is_active, captured, last_popped,
                   last_evicted, last_rejected, ws_vars, sf_vars, life_vars>>

\* A drop-newest callback: after queue.Full the new chunk is given up and the
\* queue keeps what it holds.
AudioCallbackDropNewest(o) ==
    /\ service = "rtmp"
    /\ cb_pc[o] = "full"
    /\ last_rejected' = [last_rejected EXCEPT ![o] = cb_data[o]]
    /\ cb_pc' = [cb_pc EXCEPT ![o] = "idle"]
    /\ cb_data' = [cb_data EXCEPT ![o] = 0]
    /\ UNCHANGED <<service, cap_is_active, audio_queue, captured,
                   last_popped, last_evicted, ws_vars, sf_vars, life_vars>>

\* _audio_callback, lines 125-129: after queue.Full, get_nowait removes the
\* oldest chunk; on queue.Empty the new chunk is given up (pass).
AudioCallbackDropOldest(o) ==
    /\ service = "rtmp"
    /\ cb_pc[o] = "full"
    /\ IF audio_queue[o] = <<>>
       THEN /\ last_rejected' = [last_rejected EXCEPT ![o] = cb_data[o]]
            /\ cb_pc' = [cb_pc EXCEPT ![o] = "idle"]
            /\ cb_data' = [cb_data EXCEPT ![o] = 0]
            /\ UNCHANGED <<audio_queue, last_evicted>>
       ELSE /\ last_evicted' = [last_evicted EXCEPT
                                   ![o] = Head(audio_queue[o])]
            /\ audio_queue' = [audio_queue EXCEPT ![o] = Tail(@)]
            /\ cb_pc' = [cb_pc EXCEPT ![o] = "retry"]
            /\ UNCHANGED <<cb_data, last_rejected>>
    /\ UNCHANGED <<service, cap_is_active, captured, last_popped,
                   ws_vars, sf_vars, life_vars>>

\* _audio_callback, line 127: the second put_nowait.  A queue.Full here is
\* not caught by `except queue.Empty` and ends the callback with the chunk
\* lost.
AudioCallbackRetry(o) ==
    /\ service = "rtmp"
    /\ cb_pc[o] = "retry"
    /\ IF QueueFull(audio_queue[o], AudioMaxSize)
       THEN /\ last_rejected' = [last_rejected EXCEPT ![o] = cb_data[o]]
            /\ UNCHANGED audio_queue
       ELSE /\ audio_queue' = [audio_queue EXCEPT
                                  ![o] = Append(@, cb_data[o])]
            /\ UNCHANGED last_rejected
    /\ cb_pc' = [cb_pc EXCEPT ![o] = "idle"]
    /\ cb_data' = [cb_data EXCEPT ![o] = 0]
    /\ UNCHANGED <<service, cap_is_active, captured, last_popped,
                   last_evicted, ws_vars, sf_vars, life_vars>>

\* get_audio_chunk, lines 132-137: the result of queue.get(timeout): the
\* oldest chunk, or None (0) when the queue stayed empty for the timeout.
GetAudioChunkResult(o) ==
    IF audio_queue[o] = <<>> THEN 0 ELSE Head(audio_queue[o])

\* The queue after get_audio_chunk.
GetAudioChunkQueue(o) ==
    IF audio_queue[o] = <<>> THEN <<>> ELSE Tail(audio_queue[o])

\* A consumer's call of get_audio_chunk that returns a chunk.
GetAudioChunk(o) ==
    /\ service = "rtmp"
    /\ audio_queue[o] # <<>>
    /\ last_popped' = [last_popped EXCEPT ![o] = GetAudioChunkResult(o)]
    /\ audio_queue' = [audio_queue EXCEPT ![o] = GetAudioChunkQueue(o)]
    /\ UNCHANGED <<service, cap_is_active, captured, cb_pc, cb_data,
                   last_evicted, last_rejected, ws_vars, sf_vars, life_vars>>

\* ------------------------------------------- RTMPStreamWriter (rtmp)
\* The engine, inside run_chunk on worker n of stream o, hands a frame to
\* RTMPStreamWriter.__call__, line 58: the call returns at once unless
\* is_active and process is set, else it goes on to write.
EngineEmit(o, n, limit) ==
    /\ service = "rtmp"
    /\ thread_pc[o][n] = "run_chunk"
    /\ generated[o] < limit
    /\ generated' = [generated EXCEPT ![o] = @ + 1]
    /\ IF ~rtmp_is_active[o] \/ rtmp_process[o] = "None"
       THEN UNCHANGED thread_pc
       ELSE thread_pc' = [thread_pc EXCEPT ![o][n] = "writing"]
    /\ UNCHANGED <<service, audio_vars, sf_vars, cap_stream, rtmp_vars,
                   audio_thread, fed_vars, writer_vars, call_vars,
                   active_sessions, ws_alloc, session_active, ws_sdk,
                   writer_is_active, frame_queue>>

\* A writer whose except clause only prints: is_active stays set after a
\* failed write.
WriterWriteKeepsActive(o, n, pending) ==
    /\ service = "rtmp"
    /\ thread_pc[o][n] = "writing"
    /\ ffmpeg[o] # "running"
    /\ write_failed' = [write_failed EXCEPT ![o] = TRUE]
    /\ stdin_state' = [stdin_state EXCEPT
                          ![o] = IF pending THEN "pending" ELSE @]
    /\ thread_pc' = [thread_pc EXCEPT ![o][n] = "run_chunk"]
    /\ UNCHANGED <<rtmp_is_active, rtmp_process, ffmpeg, pipe_frames>>
    /\ UNCHANGED <<service, audio_vars, ws_vars, sf_vars, cap_stream,
                   rtmp_vars, audio_thread, fed_vars, call_vars>>

\* A writer without the except clause: the broken pipe raises out of
\* run_chunk and ends the worker.
WriterWriteRaises(o, n, pending) ==
    /\ service = "rtmp"
    /\ thread_pc[o][n] = "writing"
    /\ ffmpeg[o] # "running"
    /\ write_failed' = [write_failed EXCEPT ![o] = TRUE]
    /\ stdin_state' = [stdin_state EXCEPT
                          ![o] = IF pending THEN "pending" ELSE @]
    /\ thread_pc' = [thread_pc EXCEPT ![o][n] = "raised"]
    /\ UNCHANGED <<rtmp_is_active, rtmp_process, ffmpeg, pipe_frames>>
    /\ UNCHANGED <<service, audio_vars, ws_vars, sf_vars, cap_stream,
                   rtmp_vars, audio_thread, fed_vars, call_vars>>

\* RTMPStreamWriter.__call__, lines 61-75: process.stdin.write and flush.
\* BrokenPipeError/OSError (the encoder is gone) is caught and clears
\* is_active; `pending` says whether the failed flush left bytes in the
\* buffer of stdin.  With process reset to None (AttributeError) or stdin
\* closed (ValueError) by a concurrent close(), the exception is not caught
\* and ends the worker.
WriterWrite(o, n, pending) ==
    /\ service = "rtmp"
    /\ thread_pc[o][n] = "writing"
    /\ IF rtmp_process[o] = "None" \/ stdin_state[o] = "closed"
       THEN /\ ~pending
            /\ thread_pc' = [thread_pc EXCEPT ![o][n] = "raised"]
            /\ UNCHANGED writer_vars
       ELSE IF ffmpeg[o] # "running"
       THEN /\ rtmp_is_active' = [rtmp_is_active EXCEPT ![o] = FALSE]
            /\ write_failed' = [write_failed EXCEPT ![o] = TRUE]
            /\ stdin_state' = [stdin_state EXCEPT
                                  ![o] = IF pending THEN "pending" ELSE @]
            /\ thread_pc' = [thread_pc EXCEPT ![o][n] = "run_chunk"]
            /\ UNCHANGED <<rtmp_process, ffmpeg, pipe_frames>>
       ELSE /\ ~pending
            /\ pipe_frames' = [pipe_frames EXCEPT ![o] = @ + 1]
            /\ thread_pc' = [thread_pc EXCEPT ![o][n] = "run_chunk"]
            /\ UNCHANGED <<rtmp_is_active, rtmp_process, stdin_state,
                           ffmpeg, write_failed>>
    /\ UNCHANGED <<service, audio_vars, ws_vars, sf_vars, cap_stream,
                   rtmp_vars, audio_thread, fed_vars, call_vars>>

\* The encoder subprocess dies or loses its connection: the pipe breaks.
EncoderDies(o) ==
    /\ service = "rtmp"
    /\ ffmpeg[o] = "running"
    /\ ffmpeg' = [ffmpeg EXCEPT ![o] = "gone"]
    /\ UNCHANGED <<service, audio_vars, ws_vars, sf_vars, cap_stream,
                   rtmp_vars, thread_vars, rtmp_is_active, rtmp_process,
                   stdin_state, pipe_frames, write_failed, call_vars>>

\* --------------------------------------------- audio_processor (rtmp)
\* audio_processor, line 199: the loop test on stream["active"].
WorkerLoop(o, n) ==
    /\ service = "rtmp"
    /\ thread_pc[o][n] = "loop"
    /\ thread_pc' = [thread_pc EXCEPT
                        ![o][n] = IF stream_active[o] THEN "get" ELSE "done"]
    /\ UNCHANGED <<service, audio_vars, ws_vars, sf_vars, cap_stream,
                   rtmp_vars, audio_thread, fed_vars, writer_vars, call_vars>>

\* A worker whose get_audio_chunk has no timeout: it returns only a chunk.
WorkerGetBlocking(o, n) ==
    /\ service = "rtmp"
    /\ thread_pc[o][n] = "get"
    /\ audio_queue[o] # <<>>
    /\ audio_queue' = [audio_queue EXCEPT ![o] = GetAudioChunkQueue(o)]
    /\ last_popped' = [last_popped EXCEPT ![o] = GetAudioChunkResult(o)]
    /\ thread_chunk' = [thread_chunk EXCEPT ![o][n] = GetAudioChunkResult(o)]
    /\ thread_pc' = [thread_pc EXCEPT ![o][n] = "got"]
    /\ UNCHANGED <<service, cap_is_active, captured, cb_pc, cb_data,
                   last_evicted, last_rejected, ws_vars, sf_vars,
                   cap_stream, rtmp_vars, audio_thread, last_fed,
                   writer_vars, call_vars>>

\* audio_processor, lines 200-205: get_audio_chunk returns a chunk into
\* audio_chunk, or None after the timeout (sleep, next iteration).
WorkerGet(o, n) ==
    /\ service = "rtmp"
    /\ thread_pc[o][n] = "get"
    /\ audio_queue' = [audio_queue EXCEPT ![o] = GetAudioChunkQueue(o)]
    /\ thread_chunk' = [thread_chunk EXCEPT ![o][n] = GetAudioChunkResult(o)]
    /\ IF GetAudioChunkResult(o) # 0
       THEN /\ last_popped' = [last_popped EXCEPT
                                  ![o] = GetAudioChunkResult(o)]
            /\ thread_pc' = [thread_pc EXCEPT ![o][n] = "got"]
       ELSE /\ thread_pc' = [thread_pc EXCEPT ![o][n] = "loop"]
            /\ UNCHANGED last_popped
    /\ UNCHANGED <<service, cap_is_active, captured, cb_pc, cb_data,
                   last_evicted, last_rejected, ws_vars, sf_vars,
                   cap_stream, rtmp_vars, audio_thread, last_fed,
                   writer_vars, call_vars>>

\* audio_processor, lines 201-203: the worker calls sdk.run_chunk with the
\* chunk it holds.
WorkerRunChunk(o, n) ==
    /\ service = "rtmp"
    /\ thread_pc[o][n] = "got"
    /\ thread_pc' = [thread_pc EXCEPT ![o][n] = "run_chunk"]
    /\ last_fed' = [last_fed EXCEPT ![o] = thread_chunk[o][n]]
    /\ thread_chunk' = [thread_chunk EXCEPT ![o][n] = 0]
    /\ UNCHANGED <<service, audio_vars, ws_vars, sf_vars, cap_stream,
                   rtmp_vars, audio_thread, writer_vars, call_vars>>

\* audio_processor, line 203: run_chunk returns.
RunChunkReturn(o, n) ==
    /\ service = "rtmp"
    /\ thread_pc[o][n] = "run_chunk"
    /\ thread_pc' = [thread_pc EXCEPT ![o][n] = "loop"]
    /\ UNCHANGED <<service, audio_vars, ws_vars, sf_vars, cap_stream,
                   rtmp_vars, audio_thread, fed_vars, writer_vars, call_vars>>

\* A worker thread that has been started and has not ended.
ThreadAlive(o, n) == thread_pc[o][n] \notin {"none", "done", "raised"}

\* -------------------------------------- TalkingHeadRTMPService (rtmp)
\* A create_stream that enters the stream in the registry before sdk.setup.
CreateStreamUpdateRegistersFirst(id, o, outcome, objs) ==
    /\ outcome \in {"early", "setup", "ok"}
    /\ outcome # "early" => o \in objs
    /\ IF outcome = "early"
       THEN UNCHANGED <<rtmp_vars, writer_vars>>
       ELSE /\ rtmp_alloc' = o
            /\ rtmp_is_active' = [rtmp_is_active EXCEPT ![o] = TRUE]
            /\ rtmp_process' = [rtmp_process EXCEPT ![o] = "Popen"]
            /\ ffmpeg' = [ffmpeg EXCEPT ![o] = "running"]
            /\ UNCHANGED <<stdin_state, pipe_frames, write_failed>>
            /\ sdk' = [sdk EXCEPT ![o] = IF outcome = "ok" THEN "setup" ELSE @]
            /\ active_streams' = [active_streams EXCEPT ![id] = o]
            /\ stream_active' = [stream_active EXCEPT ![o] = TRUE]

\* create_stream, lines 157-187, allocating object o for `id`; `objs` are the
\* objects the specification has room for.  Outcomes:
\* "early" (StreamSDK() or Popen raises: nothing was started), "setup"
\* (sdk.setup raises after rtmp_writer.start()), "ok".
CreateStreamUpdate(id, o, outcome, objs) ==
    /\ outcome \in {"early", "setup", "ok"}
    /\ outcome # "early" => o \in objs
    /\ IF outcome = "early"
       THEN UNCHANGED <<rtmp_vars, writer_vars>>
       ELSE /\ rtmp_alloc' = o
            /\ rtmp_is_active' = [rtmp_is_active EXCEPT ![o] = TRUE]
            /\ rtmp_process' = [rtmp_process EXCEPT ![o] = "Popen"]
            /\ ffmpeg' = [ffmpeg EXCEPT ![o] = "running"]
            /\ UNCHANGED <<stdin_state, pipe_frames, write_failed>>
            /\ IF outcome = "setup"
               THEN UNCHANGED <<active_streams, stream_active, sdk>>
               ELSE /\ sdk' = [sdk EXCEPT ![o] = "setup"]
                    /\ active_streams' = [active_streams EXCEPT ![id] = o]
                    /\ stream_active' = [stream_active EXCEPT ![o] = TRUE]

\* create_stream called directly.
CreateStream(id, outcome, objs) ==
    /\ CallStart("rtmp")
    /\ CreateStreamUpdate(id, rtmp_alloc + 1, outcome, objs)
    /\ CallDone("create", id,
                IF outcome = "ok" THEN "ok" ELSE "raised")
    /\ UNCHANGED <<service, audio_vars, ws_vars, sf_vars, cap_stream,
                   thread_vars>>

\* start_capture, lines 102-115, up to stream.start_stream(): the device is
\* opened and started, or the failure is caught and printed.
StartCaptureOpen(o, device_ok) ==
    cap_stream' = [cap_stream EXCEPT ![o] = IF device_ok THEN "open" ELSE @]

\* start_stream_processing, lines 189-195, called directly: nothing for an
\* unknown id, else start_capture begins.  The caller starts a stream that
\* has a thread slot of `slots` left.
StartStreamProcessing(id, device_ok, slots) ==
    /\ CallStart("rtmp")
    /\ active_streams[id] # 0 =>
           \E n \in slots : thread_pc[active_streams[id]][n] = "none"
    /\ IF active_streams[id] = 0
       THEN /\ CallDone("start", id, "noop")
            /\ UNCHANGED cap_stream
       ELSE /\ StartCaptureOpen(active_streams[id], device_ok)
            /\ call' = [op |-> "start", id |-> id,
                        obj |-> active_streams[id],
                        pc |-> IF device_ok THEN "activate" ELSE "thread",
                        via |-> "service"]
            /\ UNCHANGED last_call
    /\ UNCHANGED <<service, audio_vars, ws_vars, sf_vars, rtmp_vars,
                   thread_vars, writer_vars>>

\* The start_stream endpoint, lines 246-266: 400 for a registered id, else
\* create_stream (500 if it raises) and start_stream_processing.
StartStreamEndpoint(id, outcome, device_ok, objs) ==
    /\ CallStart("rtmp")
    /\ IF active_streams[id] # 0
       THEN /\ outcome = "ok" /\ device_ok
            /\ CallDone("start_stream", id, "400")
            /\ UNCHANGED <<rtmp_vars, writer_vars, cap_stream>>
       ELSE /\ CreateStreamUpdate(id, rtmp_alloc + 1, outcome, objs)
            /\ IF outcome = "ok"
               THEN /\ StartCaptureOpen(rtmp_alloc + 1, device_ok)
                    /\ call' = [op |-> "start", id |-> id,
                                obj |-> rtmp_alloc + 1,
                                pc |-> IF device_ok THEN "activate"
                                       ELSE "thread",
                                via |-> "endpoint"]
                    /\ UNCHANGED last_call
               ELSE /\ device_ok
                    /\ CallDone("start_stream", id, "500")
                    /\ UNCHANGED cap_stream
    /\ UNCHANGED <<service, audio_vars, ws_vars, sf_vars, thread_vars>>

\* start_capture, line 112: is_active is set once the device runs.
StartCaptureActivate ==
    /\ service = "rtmp"
    /\ call.op = "start" /\ call.pc = "activate"
    /\ cap_is_active' = [cap_is_active EXCEPT ![call.obj] = TRUE]
    /\ call' = [call EXCEPT !.pc = "thread"]
    /\ UNCHANGED <<service, audio_queue, captured, cb_pc, cb_data,
                   last_popped, last_evicted, last_rejected, ws_vars,
                   sf_vars, cap_stream, rtmp_vars, thread_vars,
                   writer_vars, last_call, call_tick>>

\* start_stream_processing, lines 207-208: a new worker thread is stored in
\* stream["audio_thread"] and started.
StartThread(n) ==
    /\ service = "rtmp"
    /\ call.op = "start" /\ call.pc = "thread"
    /\ thread_pc[call.obj][n] = "none"
    /\ \A m \in ThreadSlots : m < n => thread_pc[call.obj][m] # "none"
    /\ thread_pc' = [thread_pc EXCEPT ![call.obj][n] = "loop"]
    /\ audio_thread' = [audio_thread EXCEPT ![call.obj] = n]
    /\ UNCHANGED fed_vars
    /\ CallDone(IF call.via = "endpoint" THEN "start_stream" ELSE "start",
                call.id, "ok")
    /\ UNCHANGED <<service, audio_vars, ws_vars, sf_vars, cap_stream,
                   rtmp_vars, writer_vars, call_tick>>

\* A stop endpoint without the membership test of lines 272-273: it answers
\* 200 for an unknown id as well.
StopStreamNoLookup(id, via) ==
    /\ CallStart("rtmp")
    /\ via \in {"endpoint", "service"}
    /\ IF active_streams[id] = 0
       THEN /\ CallDone("stop", id, IF via = "endpoint" THEN "ok" ELSE "noop")
            /\ UNCHANGED <<stream_active, cap_is_active>>
       ELSE /\ stream_active' = [stream_active EXCEPT
                                    ![active_streams[id]] = FALSE]
            /\ cap_is_active' = [cap_is_active EXCEPT
                                    ![active_streams[id]] = FALSE]
            /\ call' = [op |-> "stop", id |-> id,
                        obj |-> active_streams[id], pc |-> "stop_capture",
                        via |-> via]
            /\ UNCHANGED last_call
    /\ UNCHANGED <<service, audio_queue, captured, cb_pc, cb_data,
                   last_popped, last_evicted, last_rejected, ws_vars,
                   sf_vars, cap_stream, active_streams, rtmp_alloc, sdk,
                   thread_vars, writer_vars>>

\* stop_stream, lines 210-217 and 141: nothing for an unknown id (the
\* endpoint, lines 272-273, answers 404); else the active flag and the
\* capture's is_active are cleared.
StopStream(id, via) ==
    /\ CallStart("rtmp")
    /\ via \in {"endpoint", "service"}
    /\ IF active_streams[id] = 0
       THEN /\ CallDone("stop", id,
                        IF via = "endpoint" THEN "404" ELSE "noop")
            /\ UNCHANGED <<stream_active, cap_is_active>>
       ELSE /\ stream_active' = [stream_active EXCEPT
                                    ![active_streams[id]] = FALSE]
            /\ cap_is_active' = [cap_is_active EXCEPT
                                    ![active_streams[id]] = FALSE]
            /\ call' = [op |-> "stop", id |-> id,
                        obj |-> active_streams[id], pc |-> "stop_capture",
                        via |-> via]
            /\ UNCHANGED last_call
    /\ UNCHANGED <<service, audio_queue, captured, cb_pc, cb_data,
                   last_popped, last_evicted, last_rejected, ws_vars,
                   sf_vars, cap_stream, active_streams, rtmp_alloc, sdk,
                   thread_vars, writer_vars>>

\* stop_capture, lines 142-146: the device stream is stopped (which waits
\* for a callback in progress) and closed.
StopCapture ==
    /\ service = "rtmp"
    /\ call.op = "stop" /\ call.pc = "stop_capture"
    /\ cap_stream[call.obj] = "open" => cb_pc[call.obj] = "idle"
    /\ cap_stream' = [cap_stream EXCEPT ![call.obj] = "None"]
    /\ call' = [call EXCEPT !.pc = "join"]
    /\ UNCHANGED <<service, audio_vars, ws_vars, sf_vars, rtmp_vars,
                   thread_vars, writer_vars, last_call, call_tick>>

\* stop_stream, lines 220-221: join(timeout=5) returns when the worker has
\* ended or when the timeout has passed, whichever is first.  The loop test
\* and get_audio_chunk(timeout=1.0) take less than the 5 seconds, so the
\* timeout passes only over a worker inside run_chunk (the engine, or a
\* write to the encoder pipe), which has no time limit; join waits for a
\* worker that is anywhere else in its loop.
StopJoin(timed_out) ==
    /\ service = "rtmp"
    /\ call.op = "stop" /\ call.pc = "join"
    /\ IF timed_out
       THEN /\ audio_thread[call.obj] # 0
            /\ thread_pc[call.obj][audio_thread[call.obj]]
                   \in {"run_chunk", "writing"}
       ELSE audio_thread[call.obj] # 0 =>
                ~ThreadAlive(call.obj, audio_thread[call.obj])
    /\ call' = [call EXCEPT !.pc = "sdk_close"]
    /\ UNCHANGED <<service, audio_vars, ws_vars, sf_vars, cap_stream,
                   rtmp_vars, thread_vars, writer_vars, last_call, call_tick>>

\* stop_stream, line 224: sdk.close().
StopSdkClose ==
    /\ service = "rtmp"
    /\ call.op = "stop" /\ call.pc = "sdk_close"
    /\ sdk' = [sdk EXCEPT ![call.obj] = "closed"]
    /\ call' = [call EXCEPT !.pc = "rtmp_close"]
    /\ UNCHANGED <<service, audio_vars, ws_vars, sf_vars, cap_stream,
                   active_streams, rtmp_alloc, stream_active, thread_vars,
                   writer_vars, last_call, call_tick>>

\* RTMPStreamWriter.close, lines 79-82: is_active is cleared and stdin is
\* closed; closing flushes, so bytes a failed flush left behind raise
\* BrokenPipeError again, which close() does not catch: it leaves
\* stop_stream (the endpoint answers 500).
RtmpCloseStdin ==
    /\ service = "rtmp"
    /\ call.op = "stop" /\ call.pc = "rtmp_close"
    /\ rtmp_is_active' = [rtmp_is_active EXCEPT ![call.obj] = FALSE]
    /\ IF rtmp_process[call.obj] = "None"
       THEN /\ call' = [call EXCEPT !.pc = "del"]
            /\ UNCHANGED <<stdin_state, last_call>>
       ELSE /\ stdin_state' = [stdin_state EXCEPT ![call.obj] = "closed"]
            /\ IF stdin_state[call.obj] = "pending"
               THEN CallDone("stop", call.id,
                             IF call.via = "endpoint" THEN "500"
                             ELSE "raised")
               ELSE /\ call' = [call EXCEPT !.pc = "rtmp_wait"]
                    /\ UNCHANGED last_call
    /\ UNCHANGED <<service, audio_vars, ws_vars, sf_vars, cap_stream,
                   rtmp_vars, thread_vars, rtmp_process, ffmpeg,
                   pipe_frames, write_failed, call_tick>>

\* RTMPStreamWriter.close, lines 83-86: wait(timeout=5) sees the encoder
\* exit, or times out and kills it; process is reset to None.
RtmpCloseWait(exits) ==
    /\ service = "rtmp"
    /\ call.op = "stop" /\ call.pc = "rtmp_wait"
    /\ ffmpeg[call.obj] # "running" => exits
    /\ ffmpeg' = [ffmpeg EXCEPT ![call.obj] =
                     IF @ # "running" THEN @
                     ELSE IF exits THEN "exited" ELSE "killed"]
    /\ rtmp_process' = [rtmp_process EXCEPT ![call.obj] = "None"]
    /\ call' = [call EXCEPT !.pc = "del"]
    /\ UNCHANGED <<service, audio_vars, ws_vars, sf_vars, cap_stream,
                   rtmp_vars, thread_vars, rtmp_is_active, stdin_state,
                   pipe_frames, write_failed, last_call, call_tick>>

\* stop_stream, line 227: the entry is deleted and the call returns.
StopDel ==
    /\ service = "rtmp"
    /\ call.op = "stop" /\ call.pc = "del"
    /\ active_streams' = [active_streams EXCEPT ![call.id] = 0]
    /\ CallDone("stop", call.id, "ok")
    /\ UNCHANGED <<service, audio_vars, ws_vars, sf_vars, cap_stream,
                   rtmp_alloc, stream_active, sdk, thread_vars,
                   writer_vars, call_tick>>

\* list_streams, lines 282-288: the ids registered.
ListStreamsIds == {id \in StreamIds : active_streams[id] # 0}

\* The list_streams endpoint.
ListStreams ==
    /\ CallStart("rtmp")
    /\ CallDone("list", "", "ok")
    /\ UNCHANGED <<service, audio_vars, ws_vars, sf_vars, cap_stream,
                   rtmp_vars, thread_vars, writer_vars>>

\* ------------------------------------------ StreamingVideoWriter (ws)
\* A writer whose queue was built without maxsize: every frame is appended.
WriterCallUnbounded(q, is_active, n) ==
    IF ~is_active THEN q ELSE Append(q, FrameMsg(n))

\* StreamingVideoWriter.__call__, lines 24-56, on queue q for frame n: a
\* no-op unless is_active; put_nowait, and on QueueFull get_nowait (drop the
\* oldest) followed by put_nowait; QueueEmpty gives the frame up.  The whole
\* call runs on the event loop without an await, so it is one step.
WriterCall(q, is_active, n) ==
    IF ~is_active THEN q
    ELSE IF ~QueueFull(q, FrameMaxSize) THEN Append(q, FrameMsg(n))
    ELSE IF q = <<>> THEN q
    ELSE Append(Tail(q), FrameMsg(n))

\* k consecutive calls of the sink callback, for frames first+1 .. first+k.
RECURSIVE EmitFrames(_, _, _, _)
EmitFrames(q, is_active, first, k) ==
    IF k = 0 THEN q
    ELSE EmitFrames(WriterCall(q, is_active, first + 1), is_active,
                    first + 1, k - 1)

\* A close that makes room for the end marker like __call__ does for a frame.
WriterCloseQueueEvict(q) ==
    IF QueueFull(q, FrameMaxSize) THEN Append(Tail(q), EndMsg)
    ELSE Append(q, EndMsg)

\* StreamingVideoWriter.close, lines 58-64: the queue after put_nowait of
\* the end marker, which QueueFull drops.
WriterCloseQueue(q) ==
    IF QueueFull(q, FrameMaxSize) THEN q ELSE Append(q, EndMsg)

\* A process_audio_chunk that indexes the registry without the membership
\* test: an unknown id raises KeyError.
ProcessAudioChunkNoLookup(id, k, limit) ==
    /\ CallStart("ws")
    /\ IF active_sessions[id] # 0 /\ session_active[active_sessions[id]]
       THEN LET o == active_sessions[id] IN
            /\ generated[o] + k <= limit
            /\ frame_queue' = [frame_queue EXCEPT
                   ![o] = EmitFrames(@, writer_is_active[o], generated[o], k)]
            /\ generated' = [generated EXCEPT ![o] = @ + k]
            /\ CallDone("process", id, "ok")
       ELSE /\ k = 0
            /\ UNCHANGED <<frame_queue, generated>>
            /\ CallDone("process", id,
                        IF active_sessions[id] = 0 THEN "raised" ELSE "noop")
    /\ UNCHANGED <<service, audio_vars, active_sessions, ws_alloc,
                   session_active, ws_sdk, writer_is_active, sf_vars,
                   cap_stream, rtmp_vars, thread_vars, writer_vars>>

\* process_audio_chunk, lines 104-109: one run_chunk call (result "ok") if
\* the id is registered and the session active, else nothing (result
\* "noop"); the engine calls the sink k times from inside run_chunk.
ProcessAudioChunk(id, k, limit) ==
    /\ CallStart("ws")
    /\ IF active_sessions[id] # 0 /\ session_active[active_sessions[id]]
       THEN LET o == active_sessions[id] IN
            /\ generated[o] + k <= limit
            /\ frame_queue' = [frame_queue EXCEPT
                   ![o] = EmitFrames(@, writer_is_active[o], generated[o], k)]
            /\ generated' = [generated EXCEPT ![o] = @ + k]
            /\ CallDone("process", id, "ok")
       ELSE /\ k = 0
            /\ UNCHANGED <<frame_queue, generated>>
            /\ CallDone("process", id, "noop")
    /\ UNCHANGED <<service, audio_vars, active_sessions, ws_alloc,
                   session_active, ws_sdk, writer_is_active, sf_vars,
                   cap_stream, rtmp_vars, thread_vars, writer_vars>>

\* create_session, lines 75-102, allocating object o for `id`.  Outcomes:
\* "early" (StreamSDK() or sdk.setup raises: nothing is registered), "ok".
CreateSessionUpdate(id, o, outcome, objs) ==
    /\ outcome \in {"early", "ok"}
    /\ outcome # "early" => o \in objs
    /\ IF outcome = "early"
       THEN UNCHANGED <<active_sessions, ws_alloc, session_active, ws_sdk,
                        writer_is_active>>
       ELSE /\ ws_alloc' = o
            /\ ws_sdk' = [ws_sdk EXCEPT ![o] = "setup"]
            /\ writer_is_active' = [writer_is_active EXCEPT ![o] = TRUE]
            /\ active_sessions' = [active_sessions EXCEPT ![id] = o]
            /\ session_active' = [session_active EXCEPT ![o] = TRUE]

\* create_session called directly.
CreateSession(id, outcome, objs) ==
    /\ CallStart("ws")
    /\ CreateSessionUpdate(id, ws_alloc + 1, outcome, objs)
    /\ CallDone("create", id, IF outcome = "ok" THEN "ok" ELSE "raised")
    /\ UNCHANGED <<service, audio_vars, frame_queue, generated, sf_vars,
                   cap_stream, rtmp_vars, thread_vars, writer_vars>>

\* websocket_endpoint, lines 297-312: a connection with a fresh session id
\* sends "start": create_session, then the stream_frames task is created.
\* If create_session raises, the finally clause calls close_session, which
\* finds no entry.
WsConnect(id, outcome, objs) ==
    /\ CallStart("ws")
    /\ active_sessions[id] = 0
    /\ CreateSessionUpdate(id, ws_alloc + 1, outcome, objs)
    /\ IF outcome = "ok"
       THEN /\ sf_pc' = [sf_pc EXCEPT ![ws_alloc + 1] = "scheduled"]
            /\ sf_id' = [sf_id EXCEPT ![ws_alloc + 1] = id]
       ELSE UNCHANGED <<sf_pc, sf_id>>
    /\ CallDone("connect", id, IF outcome = "ok" THEN "ok" ELSE "raised")
    /\ UNCHANGED <<service, audio_vars, frame_queue, generated, sf_obj,
                   last_sent, cap_stream, rtmp_vars, thread_vars,
                   writer_vars>>

\* close_session, lines 111-118: nothing for an unknown id; else the active
\* flag is cleared, sdk.close() runs (the engine hands k more frames to the
\* sink while it closes), writer.close() clears is_active and puts the end
\* marker, and the entry is deleted.
CloseSession(id, k, limit) ==
    /\ CallStart("ws")
    /\ IF active_sessions[id] = 0
       THEN /\ k = 0
            /\ CallDone("close", id, "noop")
            /\ UNCHANGED ws_vars
       ELSE LET o == active_sessions[id] IN
            /\ generated[o] + k <= limit
            /\ session_active' = [session_active EXCEPT ![o] = FALSE]
            /\ ws_sdk' = [ws_sdk EXCEPT ![o] = "closed"]
            /\ generated' = [generated EXCEPT ![o] = @ + k]
            /\ writer_is_active' = [writer_is_active EXCEPT ![o] = FALSE]
            /\ frame_queue' = [frame_queue EXCEPT ![o] =
                   WriterCloseQueue(EmitFrames(@, writer_is_active[o],
                                               generated[o], k))]
            /\ active_sessions' = [active_sessions EXCEPT ![id] = 0]
            /\ UNCHANGED ws_alloc
            /\ CallDone("close", id, "ok")
    /\ UNCHANGED <<service, audio_vars, sf_vars, cap_stream, rtmp_vars,
                   thread_vars, writer_vars>>

\* ------------------------------------------------- stream_frames (ws)
\* stream_frames, lines 350-354, for the item the task got from the queue:
\* the end marker ends the loop, a frame is sent (send_text suspends).
SFAfterGet(t, item) ==
    IF item.type = "end"
    THEN /\ sf_pc' = [sf_pc EXCEPT ![t] = "done"]
         /\ UNCHANGED last_sent
    ELSE /\ sf_pc' = [sf_pc EXCEPT ![t] = "sending"]
         /\ last_sent' = [last_sent EXCEPT ![t] = item.data]

\* A loop that ends on the end marker alone (while True).
SFLoopUntilEnd(t, o) ==
    IF frame_queue[o] = <<>>
    THEN /\ sf_pc' = [sf_pc EXCEPT ![t] = "waiting"]
         /\ UNCHANGED <<frame_queue, last_sent>>
    ELSE /\ frame_queue' = [frame_queue EXCEPT ![o] = Tail(@)]
         /\ SFAfterGet(t, Head(frame_queue[o]))

\* stream_frames, lines 346-348, from the head of the loop for session
\* object o: leave when the session is inactive; frame_queue.get() returns
\* at once when the queue holds an item and suspends when it is empty.
SFLoop(t, o) ==
    IF ~session_active[o]
    THEN /\ sf_pc' = [sf_pc EXCEPT ![t] = "done"]
         /\ UNCHANGED <<frame_queue, last_sent>>
    ELSE IF frame_queue[o] = <<>>
    THEN /\ sf_pc' = [sf_pc EXCEPT ![t] = "waiting"]
         /\ UNCHANGED <<frame_queue, last_sent>>
    ELSE /\ frame_queue' = [frame_queue EXCEPT ![o] = Tail(@)]
         /\ SFAfterGet(t, Head(frame_queue[o]))

\* stream_frames, lines 339-346: the task's first run: return if the id is
\* not registered, else look the session up and enter the loop.
StreamFramesStart(t) ==
    /\ service = "ws"
    /\ sf_pc[t] = "scheduled"
    /\ IF active_sessions[sf_id[t]] = 0
       THEN /\ sf_pc' = [sf_pc EXCEPT ![t] = "done"]
            /\ UNCHANGED <<sf_obj, frame_queue, last_sent>>
       ELSE /\ sf_obj' = [sf_obj EXCEPT ![t] = active_sessions[sf_id[t]]]
            /\ SFLoop(t, active_sessions[sf_id[t]])
    /\ UNCHANGED <<service, audio_vars, active_sessions, ws_alloc,
                   session_active, ws_sdk, writer_is_active,
                   generated, sf_id, life_vars>>

\* stream_frames, line 348: the task suspended in frame_queue.get() is
\* resumed once the queue holds an item and takes the oldest one.
StreamFramesWake(t) ==
    /\ service = "ws"
    /\ sf_pc[t] = "waiting"
    /\ frame_queue[sf_obj[t]] # <<>>
    /\ frame_queue' = [frame_queue EXCEPT ![sf_obj[t]] = Tail(@)]
    /\ SFAfterGet(t, Head(frame_queue[sf_obj[t]]))
    /\ UNCHANGED <<service, audio_vars, active_sessions, ws_alloc,
                   session_active, ws_sdk, writer_is_active,
                   generated, sf_id, sf_obj, life_vars>>

\* stream_frames, line 354: send_text returns and the loop goes round; a
\* send that raises ends the task (line 356).
StreamFramesSent(t, raised) ==
    /\ service = "ws"
    /\ sf_pc[t] = "sending"
    /\ IF raised
       THEN /\ sf_pc' = [sf_pc EXCEPT ![t] = "done"]
            /\ UNCHANGED <<frame_queue, last_sent>>
       ELSE SFLoop(t, sf_obj[t])
    /\ UNCHANGED <<service, audio_vars, active_sessions, ws_alloc,
                   session_active, ws_sdk, writer_is_active,
                   generated, sf_id, sf_obj, life_vars>>

\* ------------------------------------------------ channel specification
\* One running session of either program: capture active, consumer running.
InitChannels ==
    /\ service \in {"rtmp", "ws"}
    /\ cap_is_active = [o \in Objs |-> o \in ChannelObjs]
    /\ audio_queue = [o \in Objs |-> <<>>]
    /\ captured = [o \in Objs |-> 0]
    /\ cb_pc = [o \in Objs |-> "idle"]
    /\ cb_data = [o \in Objs |-> 0]
    /\ last_popped = [o \in Objs |-> 0]
    /\ last_evicted = [o \in Objs |-> 0]
    /\ last_rejected = [o \in Objs |-> 0]
    /\ active_sessions = [id \in SessionIds |->
                             IF id = "w1" /\ service = "ws" THEN 1 ELSE 0]
    /\ ws_alloc = IF service = "ws" THEN 1 ELSE 0
    /\ session_active = [o \in Objs |-> o \in ChannelObjs /\ service = "ws"]
    /\ ws_sdk = [o \in Objs |->
                    IF o \in ChannelObjs /\ service = "ws" THEN "setup"
                    ELSE "none"]
    /\ writer_is_active = [o \in Objs |->
                              o \in ChannelObjs /\ service = "ws"]
    /\ frame_queue = [o \in Objs |-> <<>>]
    /\ generated = [o \in Objs |-> 0]
    /\ sf_pc = [t \in Objs |->
                   IF t \in ChannelObjs /\ service = "ws" THEN "scheduled"
                   ELSE "none"]
    /\ sf_id = [t \in Objs |->
                   IF t \in ChannelObjs /\ service = "ws" THEN "w1" ELSE ""]
    /\ sf_obj = [t \in Objs |-> 0]
    /\ last_sent = [t \in Objs |-> 0]
    /\ cap_stream = [o \in Objs |->
                        IF o \in ChannelObjs /\ service = "rtmp" THEN "open"
                        ELSE "None"]
    /\ active_streams = [id \in StreamIds |->
                            IF id = "s1" /\ service = "rtmp" THEN 1 ELSE 0]
    /\ rtmp_alloc = IF service = "rtmp" THEN 1 ELSE 0
    /\ stream_active = [o \in Objs |->
                           o \in ChannelObjs /\ service = "rtmp"]
    /\ sdk = [o \in Objs |->
                 IF o \in ChannelObjs /\ service = "rtmp" THEN "setup"
                 ELSE "none"]
    /\ audio_thread = [o \in Objs |-> 0]
    /\ thread_chunk = [o \in Objs |-> [n \in ThreadSlots |-> 0]]
    /\ last_fed = [o \in Objs |-> 0]
    /\ thread_pc = [o \in Objs |-> [n \in ThreadSlots |-> "none"]]
    /\ rtmp_is_active = [o \in Objs |->
                            o \in ChannelObjs /\ service = "rtmp"]
    /\ rtmp_process = [o \in Objs |->
                          IF o \in ChannelObjs /\ service = "rtmp"
                          THEN "Popen" ELSE "None"]
    /\ stdin_state = [o \in Objs |-> "open"]
    /\ ffmpeg = [o \in Objs |->
                    IF o \in ChannelObjs /\ service = "rtmp" THEN "running"
                    ELSE "none"]
    /\ pipe_frames = [o \in Objs |-> 0]
    /\ write_failed = [o \in Objs |-> FALSE]
    /\ call = NoCall
    /\ last_call = NoLastCall
    /\ call_tick = FALSE

NextChannels ==
    \/ \E o \in ChannelObjs :
          \/ AudioCallbackEnter(o, MaxCaptured)
          \/ AudioCallbackPut(o)
          \/ AudioCallbackDropOldest(o)
          \/ AudioCallbackRetry(o)
          \/ GetAudioChunk(o)
          \/ StreamFramesStart(o)
          \/ StreamFramesWake(o)
          \/ \E raised \in BOOLEAN : StreamFramesSent(o, raised)
    \/ \E k \in 0..MaxPerCall : ProcessAudioChunk("w1", k, MaxGenerated)

SpecChannels == InitChannels /\ [][NextChannels]_vars

\* The channel specification with the end of the session: close_session can
\* run at any fill of the frame queue.
NextClose ==
    \/ NextChannels
    \/ \E k \in 0..MaxPerCall : CloseSession("w1", k, MaxGenerated)

SpecClose == InitChannels /\ [][NextClose]_vars

\* The same with an event loop that runs a task that is ready: the task's
\* first run, its resumption from get(), and the end of a send (send_text
\* returns or raises).
SpecCloseFair ==
    /\ SpecClose
    /\ \A t \in ChannelObjs :
          /\ WF_vars(StreamFramesStart(t))
          /\ WF_vars(StreamFramesWake(t))
          /\ WF_vars(\E raised \in BOOLEAN : StreamFramesSent(t, raised))

\* ---------------------------------------------- lifecycle specification
\* The state after construction of the service: no stream, no session.
Init ==
    /\ service \in {"rtmp", "ws"}
    /\ cap_is_active = [o \in Objs |-> FALSE]
    /\ cap_stream = [o \in Objs |-> "None"]
    /\ audio_queue = [o \in Objs |-> <<>>]
    /\ captured = [o \in Objs |-> 0]
    /\ cb_pc = [o \in Objs |-> "idle"]
    /\ cb_data = [o \in Objs |-> 0]
    /\ last_popped = [o \in Objs |-> 0]
    /\ last_evicted = [o \in Objs |-> 0]
    /\ last_rejected = [o \in Objs |-> 0]
    /\ active_streams = [id \in StreamIds |-> 0]
    /\ rtmp_alloc = 0
    /\ stream_active = [o \in Objs |-> FALSE]
    /\ sdk = [o \in Objs |-> "none"]
    /\ audio_thread = [o \in Objs |-> 0]
    /\ thread_chunk = [o \in Objs |-> [n \in ThreadSlots |-> 0]]
    /\ last_fed = [o \in Objs |-> 0]
    /\ thread_pc = [o \in Objs |-> [n \in ThreadSlots |-> "none"]]
    /\ rtmp_is_active = [o \in Objs |-> FALSE]
    /\ rtmp_process = [o \in Objs |-> "None"]
    /\ stdin_state = [o \in Objs |-> "open"]
    /\ ffmpeg = [o \in Objs |-> "none"]
    /\ pipe_frames = [o \in Objs |-> 0]
    /\ write_failed = [o \in Objs |-> FALSE]
    /\ call = NoCall
    /\ last_call = NoLastCall
    /\ call_tick = FALSE
    /\ active_sessions = [id \in SessionIds |-> 0]
    /\ ws_alloc = 0
    /\ session_active = [o \in Objs |-> FALSE]
    /\ ws_sdk = [o \in Objs |-> "none"]
    /\ writer_is_active = [o \in Objs |-> FALSE]
    /\ frame_queue = [o \in Objs |-> <<>>]
    /\ generated = [o \in Objs |-> 0]
    /\ sf_pc = [t \in Objs |-> "none"]
    /\ sf_id = [t \in Objs |-> ""]
    /\ sf_obj = [t \in Objs |-> 0]
    /\ last_sent = [t \in Objs |-> 0]

\* The chunks all devices have delivered, the frames all engines emitted.
RECURSIVE SumOver(_, _)
SumOver(f, S) ==
    IF S = {} THEN 0
    ELSE LET o == CHOOSE x \in S : TRUE IN f[o] + SumOver(f, S \ {o})

\* The steps of the threads of stream object o: the driver's callback, the
\* workers (slots `slots`), the engine and the encoder; `room` says whether
\* the specification has room for another chunk or frame.  With at most
\* MaxChunks chunks the queue never fills, so the callback is its test and
\* its first put_nowait (its queue.Full path is part of the channel
\* specification).
ThreadStep(o, slots, room) ==
    \/ AudioCallbackEnter(o, IF room THEN MaxChunks ELSE 0)
    \/ AudioCallbackPut(o)
    \/ EncoderDies(o)
    \/ \E n \in slots :
          \/ WorkerLoop(o, n)
          \/ WorkerGet(o, n)
          \/ WorkerRunChunk(o, n)
          \/ EngineEmit(o, n, IF room THEN MaxFrames ELSE 0)
          \/ \E pending \in BOOLEAN : WriterWrite(o, n, pending)
          \/ RunChunkReturn(o, n)

\* The calls of the RTMP service and their steps, with room for the stream
\* objects `objs`, streams created under the ids `ids` (stopped under any
\* id) and worker threads in the slots `slots`.
RtmpCall(objs, ids, slots) ==
    \/ \E id \in ids, outcome \in {"early", "setup", "ok"} :
          \/ CreateStream(id, outcome, objs)
          \/ \E device_ok \in BOOLEAN :
                StartStreamEndpoint(id, outcome, device_ok, objs)
    \/ \E id \in ids, device_ok \in BOOLEAN :
          StartStreamProcessing(id, device_ok, slots)
    \/ StartCaptureActivate
    \/ \E n \in slots : StartThread(n)
    \/ \E id \in StreamIds, via \in {"endpoint", "service"} :
          StopStream(id, via)
    \/ StopCapture
    \/ \E timed_out \in BOOLEAN : StopJoin(timed_out)
    \/ StopSdkClose
    \/ RtmpCloseStdin
    \/ \E exits \in BOOLEAN : RtmpCloseWait(exits)
    \/ StopDel
    \/ ListStreams

\* The calls of the WebSocket service and the steps of its tasks, with room
\* for the session objects `objs`, sessions created under the ids `ids`.
WsStep(objs, ids) ==
    \/ \E id \in ids, outcome \in {"early", "ok"} :
          \/ CreateSession(id, outcome, objs)
          \/ WsConnect(id, outcome, objs)
    \/ \E id \in SessionIds, k \in 0..MaxPerCall :
          \/ ProcessAudioChunk(id, k, MaxFrames)
          \/ CloseSession(id, k, MaxFrames)
    \/ \E t \in objs :
          \/ StreamFramesStart(t)
          \/ StreamFramesWake(t)
          \/ \E raised \in BOOLEAN : StreamFramesSent(t, raised)

\* One stream or session object: a service that runs one session in its
\* lifetime.
NextSession ==
    \/ RtmpCall(SessionObjs, StreamIds, {1})
    \/ \E o \in SessionObjs : ThreadStep(o, {1}, TRUE)
    \/ WsStep(SessionObjs, SessionIds)

SpecSession == Init /\ [][NextSession]_vars

\* The same with a scheduler that lets a worker thread that can take a step
\* take it: the loop test, get_audio_chunk (which returns within its
\* timeout), the write to the pipe and the return of run_chunk.
SpecSessionFair ==
    /\ SpecSession
    /\ \A o \in SessionObjs :
          /\ WF_vars(WorkerLoop(o, 1))
          /\ WF_vars(WorkerGet(o, 1))
          /\ WF_vars(WorkerRunChunk(o, 1))
          /\ WF_vars(\E pending \in BOOLEAN : WriterWrite(o, 1, pending))
          /\ WF_vars(RunChunkReturn(o, 1))

\* One stream object whose id every service call is made on, any number of
\* times: start_stream_processing can run again on the stream, each call
\* starting one more worker thread (slots ThreadSlots).
NextWorkers ==
    \/ RtmpCall(SessionObjs, {"s1"}, ThreadSlots)
    \/ \E o \in SessionObjs : ThreadStep(o, ThreadSlots, TRUE)
    \/ WsStep(SessionObjs, {"w1"})

SpecWorkers == Init /\ [][NextWorkers]_vars

\* Up to MaxCreates stream objects created under one id, with MaxEvents
\* chunks and frames over all of them.
NextRecreate ==
    \/ WsStep(Objs, {"w1"})
    \/ RtmpCall(Objs, {"s1"}, {1})
    \/ \E o \in Objs :
          ThreadStep(o, {1}, SumOver(captured, Objs) + SumOver(generated, Objs)
                                 < MaxEvents)

SpecRecreate == Init /\ [][NextRecreate]_vars


\* ----------------------------------------------------- channel claims
\* The chunks of a sequence of chunk numbers are strictly increasing, hence
\* pairwise distinct and in push order.
Increasing(q) == \A j, k \in 1..Len(q) : j < k => q[j] < q[k]

\* The frame numbers of the frame messages of a frame queue.
FrameData(q) == [k \in 1..Len(q) |-> q[k].data]

\* C1: in every reachable state the audio queue holds at most 100 chunks
\* and the frame queue at most 30 frames, no element is in a queue twice
\* (nor again after it was popped), and the elements are popped in push
\* order: each queue is in push order and everything still queued was pushed
\* after the last element popped.
C1_BoundedFifo ==
    \A o \in ChannelObjs :
        /\ Len(audio_queue[o]) <= 100
        /\ Len(frame_queue[o]) <= 30
        /\ Increasing(audio_queue[o])
        /\ Increasing(FrameData(frame_queue[o]))
        /\ \A k \in 1..Len(audio_queue[o]) :
               last_popped[o] < audio_queue[o][k]
        /\ \A k \in 1..Len(frame_queue[o]) :
               last_sent[o] < frame_queue[o][k].data

\* C1 witness: a full audio queue after the callback evicted a chunk and the
\* consumer popped one.
C1_Witness ==
    /\ Len(audio_queue[1]) = 100
    /\ last_evicted[1] > 0
    /\ last_popped[1] > 0

\* C2: after K > N pushes with no pop in between, the queue holds exactly the
\* N most recently pushed elements in push order (N = 100 chunks for the
\* audio queue, N = 30 frames for the frame queue).
C2_KeepsNewest ==
    \A o \in ChannelObjs :
        /\ (captured[o] > 100 /\ last_popped[o] = 0 /\ cb_pc[o] = "idle")
             => audio_queue[o] = [k \in 1..100 |-> captured[o] - 100 + k]
        /\ (generated[o] > 30 /\ last_sent[o] = 0)
             => frame_queue[o] =
                    [k \in 1..30 |-> FrameMsg(generated[o] - 30 + k)]

\* C2 witness: more than N + 1 chunks were pushed and none popped.
C2_Witness ==
    /\ captured[1] > 101
    /\ last_popped[1] = 0
    /\ cb_pc[1] = "idle"
    /\ Len(audio_queue[1]) = 100

\* C3: a push by _audio_callback only ever loses the oldest chunk still
\* queued, never the chunk being pushed: no new chunk is given up, and the
\* chunk last evicted is older than everything queued.
C3_DropsOnlyOldest ==
    \A o \in ChannelObjs :
        /\ last_rejected[o] = 0
        /\ \A k \in 1..Len(audio_queue[o]) : last_evicted[o] < audio_queue[o][k]

\* --------------------------------------------------- lifecycle claims
\* The step is a call of operation `op` (a set of names) on `id`: a call
\* starts, and either goes on under that name or has completed under it.
CallOf(ops, id) ==
    /\ call = NoCall
    /\ call_tick' # call_tick
    /\ \/ call'.op \in ops /\ call'.id = id
       \/ call' = NoCall /\ last_call'.op \in ops /\ last_call'.id = id

\* C4: the write of a frame that fails does not raise out of the writer (the
\* worker goes on inside run_chunk), it leaves is_active false, is_active
\* stays false from then on, and no later step writes to the pipe or ends a
\* worker with an exception of the writer.
C4_WriteFailureIsFinal ==
    [][\A o \in Objs :
          /\ write_failed'[o] =>
                /\ ~rtmp_is_active'[o]
                /\ \A n \in ThreadSlots :
                      thread_pc'[o][n] = "raised" => thread_pc[o][n] = "raised"
          /\ write_failed[o] =>
                /\ pipe_frames'[o] = pipe_frames[o]
                /\ \A n \in ThreadSlots : thread_pc'[o][n] # "writing"]_vars

\* C4 witness: the first frame failed to write and the engine has handed the
\* writer a second frame since, with the worker still inside run_chunk.
C4_Witness ==
    /\ write_failed[1]
    /\ pipe_frames[1] = 0
    /\ generated[1] = 2
    /\ thread_pc[1][1] = "run_chunk"

\* C5: whenever the engine of a stream has been closed by stop_stream, every
\* worker thread of the stream has ended.
C5_DestroyAfterWorkerExit ==
    \A o \in Objs, n \in ThreadSlots : sdk[o] = "closed" => ~ThreadAlive(o, n)

\* C6: a stop (close) call on an id that directly follows a completed stop
\* (close) call on the same id completes at once as a no-op: it raises
\* nothing, and closes no engine, encoder or capture and changes no session.
C6_SecondStopIsNoop ==
    [][\A id \in StreamIds \union SessionIds :
          (/\ last_call.op \in {"stop", "close"}
           /\ last_call.id = id
           /\ CallOf({"stop", "close"}, id))
          => /\ call' = NoCall
             /\ last_call'.result \in {"noop", "404"}
             /\ UNCHANGED <<audio_vars, ws_vars, sf_vars, cap_stream,
                            rtmp_vars, thread_vars, writer_vars>>]_vars

\* C7: a creation call (the start_stream endpoint, create_stream,
\* create_session, a connection) for an id that is registered completes at
\* once with a failure and leaves every stream and session as it was: no
\* entry is replaced, no engine or encoder is started.
C7_CreateExistingFails ==
    [][/\ \A id \in StreamIds :
             (active_streams[id] # 0
              /\ CallOf({"create", "start_stream"}, id))
             => /\ call' = NoCall
                /\ last_call'.result \in {"400", "500", "raised"}
                /\ UNCHANGED <<audio_vars, cap_stream, rtmp_vars,
                               thread_vars, writer_vars>>
       /\ \A id \in SessionIds :
             (active_sessions[id] # 0 /\ CallOf({"create", "connect"}, id))
             => /\ call' = NoCall
                /\ last_call'.result = "raised"
                /\ UNCHANGED <<ws_vars, sf_vars>>]_vars

C9_WorkerExitsAfterStop ==
    /\ \A o \in SessionObjs :
          (~stream_active[o] /\ ThreadAlive(o, 1)) ~> ~ThreadAlive(o, 1)
    /\ [][\A o \in Objs, n \in ThreadSlots :
             thread_pc[o][n] = "done" => thread_pc'[o][n] = "done"]_vars

\* C9 witness: stop_stream has completed for a stream whose worker took a
\* chunk to run_chunk, and the worker has left its loop.
C9_Witness ==
    /\ last_call = [op |-> "stop", id |-> "s1", result |-> "ok"]
    /\ last_popped[1] = 1
    /\ ~stream_active[1]
    /\ thread_pc[1][1] = "done"

\* C10: once close_session has run for the session a stream_frames task
\* serves, the task starts to send no further frame message.
C10_NoFrameAfterClose ==
    [][\A t \in Objs :
          (sf_obj[t] # 0 /\ ws_sdk[sf_obj[t]] = "closed")
          => last_sent'[t] = last_sent[t]]_vars

\* C11: a stream that is running (active flag set, stop not called) has a
\* live worker thread only over an audio capture that did start: its device
\* stream is open; and a start_stream_processing call whose device could not
\* be opened does not complete as a success.
C11_DeviceErrorSurfaced ==
    \A o \in Objs, n \in ThreadSlots :
        (stream_active[o] /\ ThreadAlive(o, n)) => cap_stream[o] = "open"

\* C12: the step that ends RTMPStreamWriter.close() on a started writer
\* (inside stop_stream) leaves the encoder subprocess terminated, is_active
\* false and the process handle reset, and close() returns (stop_stream goes
\* on to delete the entry).
C12_CloseTerminatesEncoder ==
    [][\A o \in Objs :
          (/\ call.op = "stop" /\ call.obj = o
           /\ call.pc \in {"rtmp_close", "rtmp_wait"}
           /\ rtmp_process[o] = "Popen"
           /\ ~(call'.op = "stop" /\ call'.pc \in {"rtmp_close", "rtmp_wait"}))
          => /\ call'.op = "stop" /\ call'.pc = "del"
             /\ rtmp_process'[o] = "None"
             /\ ~rtmp_is_active'[o]
             /\ ffmpeg'[o] \in {"gone", "exited", "killed"}]_vars

\* C13: a process_audio_chunk call completes at once; it calls run_chunk
\* (once) exactly when the id is registered and the session's active flag is
\* set, and otherwise (unknown id, session closed) it calls nothing, raises
\* nothing and changes no state of any session or delivery task.
C13_FeedsOnlyRunning ==
    [][\A id \in SessionIds :
          CallOf({"process"}, id)
          => /\ call' = NoCall
             /\ IF active_sessions[id] # 0
                   /\ session_active[active_sessions[id]]
                THEN last_call'.result = "ok"
                ELSE /\ last_call'.result = "noop"
                     /\ UNCHANGED <<ws_vars, sf_vars>>]_vars

\* C13 witness: a chunk was fed to a session that produced a frame, the
\* session was closed, and a later process_audio_chunk for it did nothing.
C13_Witness ==
    /\ last_call = [op |-> "process", id |-> "w1", result |-> "noop"]
    /\ ws_sdk[1] = "closed"
    /\ generated[1] > 0

\* C14: within one session the chunks passed to run_chunk are in capture
\* order and the frames sent are in generation order, none twice: every
\* run_chunk call gets a chunk newer than the one of the call before, and
\* every frame sent is newer than the frame sent before.
C14_OrderPreserved ==
    [][\A o \in Objs :
          /\ \A n \in ThreadSlots :
                (thread_pc[o][n] = "got" /\ thread_pc'[o][n] = "run_chunk")
                => last_fed'[o] > last_fed[o]
          /\ last_sent'[o] # last_sent[o] => last_sent'[o] > last_sent[o]]_vars

\* C15: for the engine of each stream at most one run_chunk call is in
\* progress (a worker inside run_chunk, or inside the writer it calls).
C15_OneRunChunkAtATime ==
    \A o \in Objs :
        Cardinality({n \in ThreadSlots :
                        thread_pc[o][n] \in {"run_chunk", "writing"}}) <= 1

C17_CloseOnFullQueue ==
    [][\A id \in SessionIds :
          (active_sessions[id] # 0 /\ CallOf({"close"}, id))
          => LET o == active_sessions[id]
                 q == frame_queue[o]
                 r == frame_queue'[o]
             IN /\ call' = NoCall /\ last_call'.result = "ok"
                /\ ~writer_is_active'[o]
                /\ generated'[o] = generated[o] =>
                      r = IF Len(q) = 30 THEN q ELSE Append(q, EndMsg)
                /\ Len(r) <= 30
                /\ \A k \in 1..Len(r) : r[k] = EndMsg => k = Len(r)
                /\ Len(r) < 30 => r[Len(r)] = EndMsg]_vars

\* C17 witness: close_session has run on a full queue: 30 frames are queued
\* and none of them is the end marker.
C17_Witness ==
    /\ last_call = [op |-> "close", id |-> "w1", result |-> "ok"]
    /\ Len(frame_queue[1]) = 30
    /\ \A k \in 1..30 : frame_queue[1][k].type = "frame"

\* C18: the write that fails on the broken pipe leaves the stream in the
\* registry with its active flag set and its worker inside run_chunk; a
\* registry entry is removed only by a stop call on its id, and an active
\* flag is cleared only by the start of a stop call on that stream.
C18_BrokenPipeKeepsSession ==
    [][/\ \A o \in Objs :
             /\ (write_failed'[o] /\ ~write_failed[o])
                => /\ UNCHANGED <<active_streams, stream_active>>
                   /\ \A n \in ThreadSlots :
                         thread_pc[o][n] = "writing"
                         => thread_pc'[o][n] = "run_chunk"
             /\ (stream_active[o] /\ ~stream_active'[o])
                => call = NoCall /\ call'.op = "stop" /\ call'.obj = o
       /\ \A id \in StreamIds :
             (active_streams[id] # 0 /\ active_streams'[id] = 0)
             => call.op = "stop" /\ call.id = id]_vars

\* C18 witness: after a write failed the stream is registered and active and
\* its worker has popped the next chunk for run_chunk.
C18_Witness ==
    /\ write_failed[1]
    /\ active_streams["s1"] = 1
    /\ stream_active[1]
    /\ thread_pc[1][1] = "got"
    /\ thread_chunk[1][1] = 2

\* C19: a create call in which the engine was not set up (create_stream
\* allocated an encoder, sdk.setup did not complete) completes at once with
\* an error to its caller, and any create call that completes with an error
\* adds no registry entry, sets no active flag, opens no capture and starts
\* no worker thread or delivery task.
C19_SetupFailureNoSession ==
    [][/\ (rtmp_alloc' # rtmp_alloc /\ sdk'[rtmp_alloc'] # "setup")
          => call' = NoCall /\ last_call'.result \in {"raised", "500"}
       /\ \A id \in StreamIds :
             (/\ CallOf({"create", "start_stream"}, id)
              /\ call' = NoCall
              /\ last_call'.result \in {"raised", "500"})
             => UNCHANGED <<active_streams, stream_active, sdk, cap_stream,
                            audio_vars, thread_vars>>
       /\ \A id \in SessionIds :
             (/\ CallOf({"create", "connect"}, id)
              /\ last_call'.result = "raised")
             => UNCHANGED <<ws_vars, sf_vars>>]_vars

\* C19 witness: start_stream answered 500 after the encoder of the stream
\* was started, and "s1" is not registered.
C19_Witness ==
    /\ last_call = [op |-> "start_stream", id |-> "s1", result |-> "500"]
    /\ ffmpeg[1] = "running"
    /\ sdk[1] = "none"
    /\ active_streams["s1"] = 0

\* C20: once close_session has run for a session, its stream_frames task
\* eventually ends, whether the end marker was queued or dropped.
C20_DeliveryLoopTerminates ==
    \A t \in ChannelObjs : (ws_sdk[t] = "closed") ~> (sf_pc[t] = "done")

\* C20 witness: close_session dropped the end marker on the full queue and
\* the task has ended with frames still queued.
C20_Witness ==
    /\ ws_sdk[1] = "closed"
    /\ sf_pc[1] = "done"
    /\ last_sent[1] > 0
    /\ Len(frame_queue[1]) >= 29
    /\ \A k \in 1..Len(frame_queue[1]) : frame_queue[1][k].type = "frame"

\* C21: no write call of the RTMP writer raises into the worker: no worker
\* thread is ever ended by an exception, whichever way the write's test, the
\* pipe write and close()'s pipe close and process release interleave.
C21_WriteNeverRaises ==
    \A o \in Objs, n \in ThreadSlots : thread_pc[o][n] # "raised"

\* C22: every RTMP writer that is active with a running encoder subprocess
\* belongs to a registered stream: some registry entry refers to it.
C22_EncoderOwned ==
    \A o \in Objs :
        (rtmp_is_active[o] /\ ffmpeg[o] = "running")
        => \E id \in StreamIds : active_streams[id] = o

\* C23: once the frame writer of a session was closed its frame queue only
\* shrinks, and a chunk is added to an audio queue only in a state where the
\* capture's is_active is set.
C23_EnqueueOnlyWhileActive ==
    [][\A o \in Objs :
          /\ (ws_sdk[o] = "closed" /\ ~writer_is_active[o])
             => Len(frame_queue'[o]) <= Len(frame_queue[o])
          /\ (/\ audio_queue'[o] # <<>>
              /\ \/ audio_queue[o] = <<>>
                 \/ audio_queue'[o][Len(audio_queue'[o])]
                       # audio_queue[o][Len(audio_queue[o])])
             => cap_is_active[o]]_vars

=============================================================================
